---- MODULE Spec2Model ----
(***************************************************************************)
(* AsyncMappingIterator of kserve/protocol/rest/openai/openai_model.py:    *)
(* an async iterator that pulls a wrapped producer (self.iterator), maps   *)
(* each raw item (self.mapper), optionally skips None results              *)
(* (self.skip_none) and calls a cleanup callable (self.close) from the     *)
(* except clause of its inner next().                                      *)
(*                                                                         *)
(* OpenAIModel of the same file is modelled by its constructor.            *)
(*                                                                         *)
(* One step of the model is the code that runs between two suspension      *)
(* points (await) of __anext__.  The producer and the close callable are   *)
(* the environment: what the producer answers to a pull is chosen freely.  *)
(***************************************************************************)
EXTENDS Naturals, Sequences, FiniteSets

VARIABLES
    iterator,    \* iterator[a]: what self.iterator has answered so far, in order
    mapper,      \* mapper[a]: self.mapper, a function on raw items
    skip_none,   \* skip_none[a]: self.skip_none
    close,       \* close[a]: what kind of callable self.close is
    pc,          \* pc[a]: where the caller's __anext__ coroutine stands
    e,           \* e[a]: the exception bound in the except clause while close is awaited
    out,         \* out[a]: what each finished __anext__ gave its caller, in order
    closeCalls,  \* closeCalls[a]: how often self.close has been called
    closeDone,   \* closeDone[a]: how often the body of self.close has run to its end
    models,      \* models[m]: the OpenAIModel object m: built or not, its name, self.ready
    aiter        \* aiter[a]: what the last __aiter__ on a returned, and where the
                 \* producer stood then

vars ==
    <<iterator, mapper, skip_none, close, pc, e, out, closeCalls, closeDone, models,
      aiter>>

(***************************************************************************)
(* Bounds of the exploration.                                              *)
(***************************************************************************)
\* producer answers explored per adapter when one adapter is live
MaxProd == 3
\* producer answers explored per adapter when two adapters are live
MaxProdTwo == 2

(***************************************************************************)
(* Values.                                                                 *)
(***************************************************************************)
Adapters == {"A1", "A2"}

\* OpenAIModel objects and the names they are constructed with
Models == {"M1", "M2", "M3"}

Names == {"n1", "n2", "n3", "n4"}

\* raw items a producer can emit
Raw == {"A", "B"}

\* ordinary failures (subclasses of Exception) a producer can raise
Errs == {"E1", "E2"}

\* what self.mapper can do with a raw item: return a value, return None, raise
MapResults == Raw \cup {"None", "MapErr"}

Mappers == [Raw -> MapResults]

\* the default argument of mapper: lambda item: item
IdentityMapper == [r \in Raw |-> r]

\* self.close: absent, a plain function, a coroutine function (each returning
\* or raising), a plain function that returns on its first call and raises
\* on every later one, or a plain callable that returns a coroutine object
CloseKinds ==
    {"None", "sync", "sync_raises", "sync_once", "coro", "coro_raises",
     "plain_returns_coro"}

\* faulty variant of IsCoroutineFunction: the test is lost and close is always
\* called without await
IsCoroutineFunctionNever(k) == FALSE

\* inspect.iscoroutinefunction(self.close): true of `async def` functions only
IsCoroutineFunction(k) == k \in {"coro", "coro_raises"}

\* calling the callable only builds a coroutine object; its body runs when awaited
ReturnsCoroutine(k) == k \in {"coro", "coro_raises", "plain_returns_coro"}

\* the body of a close of kind k raises when it runs for the n-th time
CloseRaises(k, n) ==
    \/ k \in {"sync_raises", "coro_raises"}
    \/ k = "sync_once" /\ n > 1

\* faulty variant of IsException: the clause is `except BaseException`
IsExceptionBase(x) == TRUE

\* StopAsyncIteration and every member of Errs derive from Exception, as does
\* what a mapper raises; asyncio.CancelledError derives from BaseException only
IsException(x) == x \in Errs \cup {"Stop", "MapErr", "CloseErr"}

Live == {a \in Adapters : pc[a] # "absent"}

Horizon == IF Live = Adapters THEN MaxProdTwo ELSE MaxProd

(***************************************************************************)
(* What a finished __anext__ hands to its caller.  kind is "item" (a       *)
(* return), "stop" (StopAsyncIteration) or "raise"; cause says what the    *)
(* producer pull of that call ended with; calls and done are the values of *)
(* closeCalls and closeDone at that moment.                                *)
(***************************************************************************)
Entry(kind, val, cause, calls, done) ==
    [kind |-> kind, val |-> val, cause |-> cause, calls |-> calls, done |-> done]

KindOf(x) == IF x = "Stop" THEN "stop" ELSE "raise"

CauseOf(x) ==
    IF x = "Stop" THEN "stop"
    ELSE IF x = "MapErr" THEN "mapper"
    ELSE IF x = "Cancel" THEN "cancel"
    ELSE "producer"

\* __anext__ ends: the caller gets the entry, the coroutine is gone
Finish(a, entry) ==
    /\ out' = [out EXCEPT ![a] = Append(@, entry)]
    /\ pc' = [pc EXCEPT ![a] = "idle"]
    /\ e' = [e EXCEPT ![a] = "none"]

\* `raise e` (or the exception leaving the coroutine uncaught)
Raise(a, x, cause, calls, done) ==
    Finish(a, Entry(KindOf(x), x, cause, calls, done))

\* `return mapped_item`
Return(a, v) ==
    Finish(a, Entry("item", v, "item", closeCalls[a], closeDone[a]))

\* faulty variant of Reraised: a fresh exception is raised in place of the
\* caught one, so the identity of the failure is lost
ReraisedFresh(k, n, x) ==
    IF CloseRaises(k, n) THEN "CloseErr" ELSE IF x \in Errs THEN "E1" ELSE x

\* faulty variant of Reraised: a failure of close is swallowed and the caught
\* exception is raised all the same
ReraisedSwallow(k, n, x) == x

\* what leaves the except clause once close (kind k) was called for the n-th
\* time: `raise e` re-raises the caught x, unless the body of close ran and
\* raised first
Reraised(k, n, x) == IF CloseRaises(k, n) THEN "CloseErr" ELSE x

\* faulty variant of Skips: the skip_none loop is missing
SkipsNever(a, m) == FALSE

\* faulty variant of Skips: the skip_none flag is not consulted
SkipsAlways(a, m) == m = "None"

\* `if self.skip_none: while mapped_item is None:` asks for another pull
Skips(a, m) == skip_none[a] /\ m = "None"

(***************************************************************************)
(* The except clause of next(): `except Exception as e`, entered with x.   *)
(***************************************************************************)
Except(a, x) ==
    IF close[a] = "None"
    THEN \* `if self.close:` is false
         /\ Raise(a, Reraised(close[a], closeCalls[a], x), CauseOf(x),
                  closeCalls[a], closeDone[a])
         /\ UNCHANGED <<closeCalls, closeDone>>
    ELSE IF IsCoroutineFunction(close[a])
    THEN \* `await self.close()`: the call is made, the coroutine suspends
         /\ closeCalls' = [closeCalls EXCEPT ![a] = @ + 1]
         /\ pc' = [pc EXCEPT ![a] = "close"]
         /\ e' = [e EXCEPT ![a] = x]
         /\ UNCHANGED <<out, closeDone>>
    ELSE IF ReturnsCoroutine(close[a])
    THEN \* `self.close()` builds a coroutine object that nobody awaits
         /\ closeCalls' = [closeCalls EXCEPT ![a] = @ + 1]
         /\ Raise(a, Reraised(close[a], closeCalls[a] + 1, x), CauseOf(x),
                  closeCalls[a] + 1, closeDone[a])
         /\ UNCHANGED closeDone
    ELSE \* `self.close()` runs to its end, then `raise e` unless it raised
         /\ closeCalls' = [closeCalls EXCEPT ![a] = @ + 1]
         /\ closeDone' = [closeDone EXCEPT ![a] = @ + 1]
         /\ Raise(a, Reraised(close[a], closeCalls[a] + 1, x), CauseOf(x),
                  closeCalls[a] + 1, closeDone[a] + 1)

\* `try: ... except Exception as e:` around the producer pull and the mapper:
\* x enters the except clause when it is an Exception, and leaves next()
\* untouched otherwise
Try(a, x) ==
    IF IsException(x)
    THEN Except(a, x)
    ELSE /\ Raise(a, x, CauseOf(x), closeCalls[a], closeDone[a])
         /\ UNCHANGED <<closeCalls, closeDone>>

\* faulty variant of Answer: the producer is also pulled while no __anext__
\* is in progress (read-ahead)
AnswerAhead(a, x) ==
    /\ pc[a] \in {"idle", "next"}
    /\ Len(iterator[a]) < Horizon \/ x \notin Raw
    /\ iterator' = [iterator EXCEPT ![a] = Append(@, x)]

\* faulty variant of Answer: the adapters pull one shared producer, so a
\* pull by one moves the cursor of all
AnswerShared(a, x) ==
    /\ pc[a] = "next"
    /\ Len(iterator[a]) < Horizon \/ x \notin Raw
    /\ iterator' = [b \in Adapters |-> Append(iterator[b], x)]

\* the producer answers the pending `await self.iterator.__anext__()`; it is
\* finite: past the horizon it has no raw item left and ends, fails or is
\* cancelled
Answer(a, x) ==
    /\ pc[a] = "next"
    /\ Len(iterator[a]) < Horizon \/ x \notin Raw
    /\ iterator' = [iterator EXCEPT ![a] = Append(@, x)]

(***************************************************************************)
(* Actions.                                                                *)
(***************************************************************************)
\* the caller calls __anext__; it runs to `await self.iterator.__anext__()`
Anext(a) ==
    /\ pc[a] = "idle"
    /\ Len(iterator[a]) < Horizon
    /\ pc' = [pc EXCEPT ![a] = "next"]
    /\ UNCHANGED <<iterator, mapper, skip_none, close, e, out, closeCalls, closeDone>>
    /\ UNCHANGED <<models, aiter>>

\* faulty variant of NextItem: self.mapper(r) is called outside the try, so
\* its failure leaves next() without passing the except clause
NextItemUnguarded(a, r) ==
    /\ Answer(a, r)
    /\ IF mapper[a][r] = "MapErr"
       THEN /\ Raise(a, "MapErr", "mapper", closeCalls[a], closeDone[a])
            /\ UNCHANGED <<closeCalls, closeDone>>
       ELSE IF Skips(a, mapper[a][r])
       THEN UNCHANGED <<pc, e, out, closeCalls, closeDone>>
       ELSE /\ Return(a, mapper[a][r])
            /\ UNCHANGED <<closeCalls, closeDone>>
    /\ UNCHANGED <<mapper, skip_none, close, models, aiter>>

\* the producer yields raw item r; self.mapper(r) runs inside the try
NextItem(a, r) ==
    /\ Answer(a, r)
    /\ IF mapper[a][r] = "MapErr"
       THEN Try(a, "MapErr")
       ELSE IF Skips(a, mapper[a][r])
       THEN \* `while mapped_item is None: mapped_item = await next()`
            UNCHANGED <<pc, e, out, closeCalls, closeDone>>
       ELSE /\ Return(a, mapper[a][r])
            /\ UNCHANGED <<closeCalls, closeDone>>
    /\ UNCHANGED <<mapper, skip_none, close, models, aiter>>

\* the producer raises StopAsyncIteration, which `except Exception` catches
NextStop(a) ==
    /\ Answer(a, "Stop")
    /\ Try(a, "Stop")
    /\ UNCHANGED <<mapper, skip_none, close, models, aiter>>

\* faulty variant of NextErr: only the first next() of a call is guarded, the
\* pulls made by the skip_none loop are not
NextErrFirstOnly(a, x) ==
    /\ Answer(a, x)
    /\ IF /\ iterator[a] # <<>>
          /\ iterator[a][Len(iterator[a])] \in Raw
          /\ Skips(a, mapper[a][iterator[a][Len(iterator[a])]])
       THEN /\ Raise(a, x, CauseOf(x), closeCalls[a], closeDone[a])
            /\ UNCHANGED <<closeCalls, closeDone>>
       ELSE Try(a, x)
    /\ UNCHANGED <<mapper, skip_none, close, models, aiter>>

\* the producer raises an ordinary failure x
NextErr(a, x) ==
    /\ Answer(a, x)
    /\ Try(a, x)
    /\ UNCHANGED <<mapper, skip_none, close, models, aiter>>

\* the pending await is cancelled: CancelledError is no Exception, so the
\* except clause is passed by
NextCancel(a) ==
    /\ Answer(a, "Cancel")
    /\ Try(a, "Cancel")
    /\ UNCHANGED <<mapper, skip_none, close, models, aiter>>

\* the awaited self.close() finishes: `raise e`, or the failure of close
CloseReturn(a) ==
    /\ pc[a] = "close"
    /\ closeDone' = [closeDone EXCEPT ![a] = @ + 1]
    /\ Raise(a, Reraised(close[a], closeCalls[a], e[a]), CauseOf(e[a]),
             closeCalls[a], closeDone[a] + 1)
    /\ UNCHANGED <<iterator, mapper, skip_none, close, closeCalls, models, aiter>>

(***************************************************************************)
(* Construction: AsyncMappingIterator.__init__ stores its four arguments.  *)
(***************************************************************************)
Fresh(S) ==
    /\ iterator = [a \in Adapters |-> <<>>]
    /\ pc = [a \in Adapters |-> IF a \in S THEN "idle" ELSE "absent"]
    /\ e = [a \in Adapters |-> "none"]
    /\ out = [a \in Adapters |-> <<>>]
    /\ closeCalls = [a \in Adapters |-> 0]
    /\ closeDone = [a \in Adapters |-> 0]
    /\ aiter = [a \in Adapters |-> [ret |-> "none", at |-> 0]]

\* no OpenAIModel has been constructed
NoModel == models = [m \in Models |-> [built |-> FALSE, name |-> "none", ready |-> FALSE]]

\* one adapter, any mapper, either skip_none, any close
Init ==
    /\ Fresh({"A1"})
    /\ NoModel
    /\ mapper \in [Adapters -> Mappers]
    /\ mapper["A2"] = IdentityMapper
    /\ skip_none \in [Adapters -> BOOLEAN]
    /\ skip_none["A2"] = TRUE
    /\ close \in [Adapters -> CloseKinds]
    /\ close["A2"] = "None"

Next ==
    \E a \in Adapters :
        \/ Anext(a)
        \/ \E r \in Raw : NextItem(a, r)
        \/ NextStop(a)
        \/ \E x \in Errs : NextErr(a, x)
        \/ NextCancel(a)
        \/ CloseReturn(a)

Spec == Init /\ [][Next]_vars

(***************************************************************************)
(* Scheduling.  The event loop resumes a coroutine once what it awaits has *)
(* an outcome: a pending producer pull is answered (the producer is finite *)
(* and gives each pull an outcome), and an awaited close finishes.         *)
(* Nothing makes the caller pull again.                                    *)
(***************************************************************************)
ProducerAnswers(a) ==
    \/ \E r \in Raw : NextItem(a, r)
    \/ NextStop(a)
    \/ \E x \in Errs : NextErr(a, x)
    \/ NextCancel(a)

SpecLive ==
    /\ Init
    /\ [][Next]_vars
    /\ \A a \in Adapters : WF_vars(ProducerAnswers(a)) /\ WF_vars(CloseReturn(a))

(***************************************************************************)
(* Two adapters, each on its own producer with its own close.              *)
(***************************************************************************)
TwoConfigs ==
    { [mapper |-> IdentityMapper, skip_none |-> TRUE, close |-> "sync"],
      [mapper |-> [r \in Raw |-> IF r = "B" THEN "None" ELSE r],
       skip_none |-> TRUE, close |-> "coro"],
      [mapper |-> [r \in Raw |-> IF r = "A" THEN "MapErr" ELSE r],
       skip_none |-> FALSE, close |-> "coro_raises"] }

InitTwo ==
    /\ Fresh(Adapters)
    /\ NoModel
    /\ \E c \in [Adapters -> TwoConfigs] :
          /\ mapper = [a \in Adapters |-> c[a].mapper]
          /\ skip_none = [a \in Adapters |-> c[a].skip_none]
          /\ close = [a \in Adapters |-> c[a].close]

SpecTwo == InitTwo /\ [][Next]_vars

(***************************************************************************)
(* AsyncMappingIterator.__aiter__: `return self`.  It changes nothing of   *)
(* the adapter, so Spec and SpecTwo leave it out; SpecIter adds it, with a *)
(* record of what each call returned.  The one consuming task calls it     *)
(* between its pulls.                                                      *)
(***************************************************************************)
\* faulty variant of Aiter: a new iteration starts the producer over
AiterRestart(a) ==
    /\ pc[a] = "idle"
    /\ aiter' = [aiter EXCEPT ![a] = [ret |-> a, at |-> 0]]
    /\ iterator' = [iterator EXCEPT ![a] = <<>>]
    /\ UNCHANGED <<mapper, skip_none, close, pc, e, out, closeCalls, closeDone, models>>

Aiter(a) ==
    /\ pc[a] = "idle"
    /\ aiter' = [aiter EXCEPT ![a] = [ret |-> a, at |-> Len(iterator[a])]]
    /\ UNCHANGED <<iterator, mapper, skip_none, close, pc, e, out, closeCalls,
                   closeDone, models>>

\* one adapter, any mapper, either skip_none, no close or a coroutine function
InitIter ==
    /\ Fresh({"A1"})
    /\ NoModel
    /\ mapper \in [Adapters -> Mappers]
    /\ mapper["A2"] = IdentityMapper
    /\ skip_none \in [Adapters -> BOOLEAN]
    /\ skip_none["A2"] = TRUE
    /\ close \in [Adapters -> {"None", "coro"}]
    /\ close["A2"] = "None"

NextIter == Next \/ \E a \in Adapters : Aiter(a)

SpecIter == InitIter /\ [][NextIter]_vars

(***************************************************************************)
(* OpenAIModel.__init__(name): super().__init__(name), then                *)
(* self.ready = True.  The class has no load() of its own.                 *)
(***************************************************************************)
\* faulty variant of OpenAIModelInit: `self.ready = True` is missing
OpenAIModelInitNotReady(m, n) ==
    /\ ~models[m].built
    /\ models' = [models EXCEPT ![m] = [built |-> TRUE, name |-> n, ready |-> FALSE]]
    /\ UNCHANGED <<iterator, mapper, skip_none, close, pc, e, out, closeCalls, closeDone>>
    /\ UNCHANGED aiter

OpenAIModelInit(m, n) ==
    /\ ~models[m].built
    /\ models' = [models EXCEPT ![m] = [built |-> TRUE, name |-> n, ready |-> TRUE]]
    /\ UNCHANGED <<iterator, mapper, skip_none, close, pc, e, out, closeCalls, closeDone>>
    /\ UNCHANGED aiter

\* no adapter yet: only models are constructed
InitModel ==
    /\ Fresh({})
    /\ NoModel
    /\ mapper = [a \in Adapters |-> IdentityMapper]
    /\ skip_none = [a \in Adapters |-> TRUE]
    /\ close = [a \in Adapters |-> "None"]

NextModel == \E m \in Models : \E n \in Names : OpenAIModelInit(m, n)

SpecModel == InitModel /\ [][NextModel]_vars

(***************************************************************************)
(* Vocabulary of the properties.                                           *)
(***************************************************************************)
\* the transform returns a value for every raw item: never None, never raises
TotalMapper(a) == \A r \in Raw : mapper[a][r] \in Raw

IsItems(h) == \A i \in 1..Len(h) : h[i] \in Raw

\* the producer emitted only items so far, or items and then ended
EndsNormally(h) ==
    \/ IsItems(h)
    \/ Len(h) >= 1 /\ h[Len(h)] = "Stop" /\ IsItems(SubSeq(h, 1, Len(h) - 1))

\* the producer emitted k items and then failed
FailsAfterItems(h) ==
    Len(h) >= 1 /\ h[Len(h)] \in Errs /\ IsItems(SubSeq(h, 1, Len(h) - 1))

\* pull i returned the transform of the i-th raw item
ReturnedItem(a, i) ==
    /\ out[a][i].kind = "item"
    /\ out[a][i].val = mapper[a][iterator[a][i]]

\* closeCalls and closeDone when pull i of adapter a began, read off the
\* values recorded when pull i-1 ended
CallsBefore(o, i) == IF i = 1 THEN 0 ELSE o[i - 1].calls

DoneBefore(o, i) == IF i = 1 THEN 0 ELSE o[i - 1].done

\* close kinds whose body runs when the adapter calls them as the code does
RunsBody == {"sync", "sync_raises", "sync_once", "coro", "coro_raises"}

\* close kinds whose body raises every time it runs
RaisingClose == {"sync_raises", "coro_raises"}

\* the call of close made in pull i of adapter a, if there is one, raises
CloseFailsIn(a, i) ==
    \/ close[a] \in RaisingClose
    \/ close[a] = "sync_once" /\ CallsBefore(out[a], i) >= 1

(***************************************************************************)
(* C1.  A producer that emits N raw items and ends normally, under a       *)
(* transform that always returns a value: the first N pulls return the N   *)
(* transformed items in producer order and pull N+1 signals                *)
(* end-of-sequence.                                                        *)
(***************************************************************************)
C1_ItemsThenEnd ==
    \A a \in Live :
        (pc[a] = "idle" /\ TotalMapper(a) /\ EndsNormally(iterator[a])) =>
            /\ Len(out[a]) = Len(iterator[a])
            /\ \A i \in 1..Len(out[a]) :
                  IF iterator[a][i] \in Raw
                  THEN ReturnedItem(a, i)
                  ELSE out[a][i].kind = "stop"

(***************************************************************************)
(* C2.  No cleanup on normal exhaustion: while the producer has only       *)
(* emitted items and signalled its end (and the transform has not raised), *)
(* close has never been called.                                            *)
(***************************************************************************)
C2_NoCleanupOnExhaustion ==
    \A a \in Live :
        (\A i \in 1..Len(iterator[a]) :
            \/ iterator[a][i] = "Stop"
            \/ iterator[a][i] \in Raw /\ mapper[a][iterator[a][i]] # "MapErr")
        => closeCalls[a] = 0

(***************************************************************************)
(* C3.  A producer that fails after k items, under a transform that always *)
(* returns a value: the first k pulls return the k transformed items and   *)
(* pull k+1 raises the producer's own failure, with or without a close.    *)
(* C3_Original is the claim as stated; C3_FailureUnchanged excepts a close *)
(* that raises, whose failure is then the one the caller gets.             *)
(***************************************************************************)
C3_Original ==
    \A a \in Live :
        (pc[a] = "idle" /\ TotalMapper(a) /\ FailsAfterItems(iterator[a])) =>
            LET n == Len(iterator[a]) IN
            /\ Len(out[a]) = n
            /\ \A i \in 1..(n - 1) : ReturnedItem(a, i)
            /\ out[a][n].kind = "raise"
            /\ out[a][n].val = iterator[a][n]

C3_FailureUnchanged ==
    \A a \in Live :
        (pc[a] = "idle" /\ TotalMapper(a) /\ FailsAfterItems(iterator[a])) =>
            LET n == Len(iterator[a]) IN
            /\ Len(out[a]) = n
            /\ \A i \in 1..(n - 1) : ReturnedItem(a, i)
            /\ out[a][n].kind = "raise"
            /\ out[a][n].val =
                  IF close[a] \in RaisingClose THEN "CloseErr" ELSE iterator[a][n]

C3_Witness ==
    \E a \in Live :
        /\ pc[a] = "idle" /\ TotalMapper(a)
        /\ iterator[a] = <<"A", "B", "E2">>
        /\ close[a] = "coro"
        /\ Len(out[a]) = 3 /\ out[a][3].val = "E2"

C5_AtMostOnce == \A a \in Adapters : closeCalls[a] <= 1

(***************************************************************************)
(* C6.  With skip_none true, the items the pulls return are exactly the    *)
(* transformed raw items whose transform is not None, in producer order:   *)
(* no suppressed item is returned and no other item is dropped.            *)
(***************************************************************************)
\* the values the pulls returned, in order
ItemVals(o) ==
    LET isItem(en) == en.kind = "item"
        s == SelectSeq(o, isItem)
    IN  [i \in 1..Len(s) |-> s[i].val]

\* the transforms of the raw items emitted so far that are values, in order
KeptVals(a) ==
    LET keeps(x) == x \in Raw /\ mapper[a][x] \in Raw
        s == SelectSeq(iterator[a], keeps)
    IN  [i \in 1..Len(s) |-> mapper[a][s[i]]]

C6_SkipNone ==
    \A a \in Live : skip_none[a] => ItemVals(out[a]) = KeptVals(a)

C6_Witness ==
    \E a \in Live :
        /\ skip_none[a] /\ pc[a] = "idle"
        /\ mapper[a] = [r \in Raw |-> IF r = "B" THEN "None" ELSE "B"]
        /\ iterator[a] = <<"A", "B", "A">>
        /\ Len(out[a]) = 2

(***************************************************************************)
(* C7.  Once a pull has signalled end-of-sequence or raised, no later pull *)
(* returns an item, whatever the producer does when pulled again.          *)
(***************************************************************************)
C7_NoItemAfterEnd ==
    \A a \in Live :
        \A i, j \in 1..Len(out[a]) :
            (i < j /\ out[a][i].kind # "item") => out[a][j].kind # "item"

(***************************************************************************)
(* C8.  The transform raises on a raw item the producer delivered.         *)
(* C8_Original is the claim as stated: the transform's failure reaches the *)
(* caller and close is not called in that pull.                            *)
(* C8_MapperFailureCleansUp is what the code does: close, if registered,   *)
(* is called once in that pull, and the caller gets the transform's        *)
(* failure unless close raised.                                            *)
(***************************************************************************)
C8_Original ==
    \A a \in Live :
        \A i \in 1..Len(out[a]) :
            out[a][i].cause = "mapper" =>
                /\ out[a][i].kind = "raise" /\ out[a][i].val = "MapErr"
                /\ out[a][i].calls = CallsBefore(out[a], i)

C8_MapperFailureCleansUp ==
    \A a \in Live :
        \A i \in 1..Len(out[a]) :
            out[a][i].cause = "mapper" =>
                /\ out[a][i].kind = "raise"
                /\ out[a][i].val =
                      IF CloseFailsIn(a, i) THEN "CloseErr" ELSE "MapErr"
                /\ out[a][i].calls =
                      CallsBefore(out[a], i) + (IF close[a] = "None" THEN 0 ELSE 1)
                /\ closeCalls[a] >= out[a][i].calls

C8_Witness ==
    \E a \in Live :
        /\ close[a] = "sync"
        /\ iterator[a] = <<"A", "B">>
        /\ Len(out[a]) = 2
        /\ out[a][1].kind = "item"
        /\ out[a][2].cause = "mapper" /\ out[a][2].val = "MapErr"
        /\ out[a][2].calls = 1

(***************************************************************************)
(* C9.  Pulling is demand-driven, with no read-ahead: the producer is      *)
(* pulled only inside a caller's pull, one raw item at a time; a pull that *)
(* returns an item leaves the producer just past the raw item it came      *)
(* from; the raw items consumed are accounted for by the items returned    *)
(* and the items suppressed.  C9_Original is the claim as stated;          *)
(* C9_DemandDriven also counts the raw items on which the transform        *)
(* raised, which are consumed but neither returned nor suppressed.         *)
(***************************************************************************)
Count(h, T(_)) == Len(SelectSeq(h, T))

Consumed(a) == LET isRaw(x) == x \in Raw IN Count(iterator[a], isRaw)

Returned(a) == LET isItem(en) == en.kind = "item" IN Count(out[a], isItem)

Suppressed(a) ==
    LET isSkipped(x) == x \in Raw /\ skip_none[a] /\ mapper[a][x] = "None"
    IN  Count(iterator[a], isSkipped)

TransformFailed(a) ==
    LET isFailed(x) == x \in Raw /\ mapper[a][x] = "MapErr"
    IN  Count(iterator[a], isFailed)

\* the last pull returned an item: the producer's last answer is its raw item
LastItemIsCurrent(a) ==
    (out[a] # <<>> /\ out[a][Len(out[a])].kind = "item" /\ pc[a] = "idle") =>
        /\ iterator[a] # <<>>
        /\ iterator[a][Len(iterator[a])] \in Raw
        /\ out[a][Len(out[a])].val = mapper[a][iterator[a][Len(iterator[a])]]

C9_Original ==
    \A a \in Live :
        /\ LastItemIsCurrent(a)
        /\ pc[a] = "idle" => Consumed(a) = Returned(a) + Suppressed(a)

C9_DemandDriven ==
    [][\A a \in Adapters :
        /\ iterator'[a] # iterator[a] =>
              /\ pc[a] = "next"
              /\ Len(iterator'[a]) = Len(iterator[a]) + 1
        /\ LastItemIsCurrent(a)'
        /\ (Consumed(a) = Returned(a) + Suppressed(a) + TransformFailed(a))'
      ]_vars

C9_Witness ==
    \E a \in Live :
        /\ pc[a] = "idle" /\ skip_none[a]
        /\ Consumed(a) = 3 /\ Returned(a) = 2
        /\ TransformFailed(a) = 1
        /\ out[a][Len(out[a])].kind = "item"

(***************************************************************************)
(* C10.  Two adapters, each with its own producer and its own close, share *)
(* no state: a step of one leaves everything of the other as it was (so a  *)
(* failure of one producer calls only that adapter's close), and what an   *)
(* adapter has handed to its caller is a function of its own arguments and *)
(* of what its own producer answered, whatever the interleaving.           *)
(***************************************************************************)
StateOf(a) ==
    <<iterator[a], mapper[a], skip_none[a], close[a], pc[a], e[a], out[a],
      closeCalls[a], closeDone[a]>>

SameRun(a, b) ==
    /\ mapper[a] = mapper[b] /\ skip_none[a] = skip_none[b] /\ close[a] = close[b]
    /\ iterator[a] = iterator[b]
    /\ pc[a] = pc[b]

C10_Independent ==
    [][/\ \A a, b \in Adapters :
            (a # b /\ StateOf(a)' # StateOf(a)) => StateOf(b)' = StateOf(b)
       /\ \A a, b \in Adapters :
            SameRun(a, b)' =>
                /\ out'[a] = out'[b]
                /\ e'[a] = e'[b]
                /\ closeCalls'[a] = closeCalls'[b]
                /\ closeDone'[a] = closeDone'[b]
      ]_vars

C10_Witness ==
    \E a, b \in Live :
        /\ a # b
        /\ Len(out[a]) = 1 /\ out[a][1].cause = "producer" /\ closeCalls[a] = 1
        /\ pc[a] = "next"
        /\ close[b] = "coro" /\ closeCalls[b] = 0
        /\ Len(out[b]) = 1 /\ out[b][1].kind = "item"
        /\ pc[b] = "next"

(***************************************************************************)
(* C11.  An OpenAIModel is ready as soon as its constructor has returned:  *)
(* every constructed model has ready = True, with no step in between.      *)
(***************************************************************************)
C11_ReadyOnConstruction ==
    \A m \in Models : models[m].built => models[m].ready

C11_Witness ==
    \E m \in Models :
        models[m].built /\ models[m].name = "n2" /\ models[m].ready

(***************************************************************************)
(* Which producer answer ended which pull.  An answer that the skip_none   *)
(* loop passes over does not end a pull; every other answer ends one, so   *)
(* the i-th finished pull ended on the i-th such answer.                   *)
(***************************************************************************)
Skipped(a, x) == x \in Raw /\ skip_none[a] /\ mapper[a][x] = "None"

EndIdx(a) ==
    LET ends(j) == ~Skipped(a, iterator[a][j])
        idx == [j \in 1..Len(iterator[a]) |-> j]
    IN  SelectSeq(idx, ends)

\* pull i of adapter a suppressed at least one item before its last answer
SkippedBefore(a, i) ==
    LET j == EndIdx(a)[i] IN j > 1 /\ Skipped(a, iterator[a][j - 1])

(***************************************************************************)
(* C12.  The skip_none loop obeys the error/cleanup rule at every producer *)
(* pull: when the producer fails after one or more items were suppressed   *)
(* inside one caller pull, that pull returns no item, close is called, and *)
(* a failure is raised.  C12_Original is the claim as stated (the          *)
(* producer's failure is raised); C12_SkipLoopGuarded excepts a close that *)
(* raises, whose failure is then the one the caller gets.                  *)
(***************************************************************************)
C12_Original ==
    \A a \in Live :
        \A i \in 1..Len(out[a]) :
            (SkippedBefore(a, i) /\ iterator[a][EndIdx(a)[i]] \in Errs) =>
                /\ out[a][i].kind = "raise"
                /\ out[a][i].val = iterator[a][EndIdx(a)[i]]
                /\ close[a] # "None" => out[a][i].calls = CallsBefore(out[a], i) + 1

C12_SkipLoopGuarded ==
    \A a \in Live :
        \A i \in 1..Len(out[a]) :
            (SkippedBefore(a, i) /\ iterator[a][EndIdx(a)[i]] \in Errs) =>
                /\ out[a][i].kind = "raise"
                /\ out[a][i].val =
                      IF CloseFailsIn(a, i) THEN "CloseErr"
                      ELSE iterator[a][EndIdx(a)[i]]
                /\ close[a] # "None" => out[a][i].calls = CallsBefore(out[a], i) + 1

C12_Witness ==
    \E a \in Live :
        /\ skip_none[a] /\ close[a] = "sync"
        /\ mapper[a]["A"] = "None"
        /\ iterator[a] = <<"A", "A", "E2">>
        /\ Len(out[a]) = 1
        /\ out[a][1].val = "E2" /\ out[a][1].calls = 1

(***************************************************************************)
(* C13.  When the producer pull fails and close then fails too, the        *)
(* failure of close is not swallowed: the pull ends with the failure of    *)
(* close, and close was called once in that pull, not twice.               *)
(***************************************************************************)
C13_CleanupFailureSurfaces ==
    \A a \in Live :
        \A i \in 1..Len(out[a]) :
            (out[a][i].cause = "producer" /\ CloseFailsIn(a, i)) =>
                /\ out[a][i].kind = "raise"
                /\ out[a][i].val = "CloseErr"
                /\ out[a][i].calls = CallsBefore(out[a], i) + 1
                /\ out[a][i].done = DoneBefore(out[a], i) + 1

C13_Witness ==
    \E a \in Live :
        /\ close[a] = "coro_raises"
        /\ iterator[a] = <<"A", "E2">>
        /\ Len(out[a]) = 2
        /\ out[a][2].cause = "producer" /\ out[a][2].val = "CloseErr"
        /\ out[a][2].calls = 1

(***************************************************************************)
(* C14.  With skip_none false every caller pull makes exactly one producer *)
(* pull and returns the transform of that raw item even when it is None:   *)
(* pull i is answered by producer answer i, so the values returned before  *)
(* end-of-sequence are as many as the raw items emitted, in order.         *)
(***************************************************************************)
C14_NoSkipOnePullEach ==
    \A a \in Live :
        ~skip_none[a] =>
            /\ Len(iterator[a]) = Len(out[a]) + (IF pc[a] = "close" THEN 1 ELSE 0)
            /\ \A i \in 1..Len(out[a]) :
                  /\ (iterator[a][i] \in Raw /\ mapper[a][iterator[a][i]] # "MapErr")
                        => ReturnedItem(a, i)
                  /\ out[a][i].kind = "item" => iterator[a][i] \in Raw

C14_Witness ==
    \E a \in Live :
        /\ ~skip_none[a] /\ close[a] = "None"
        /\ mapper[a] = [r \in Raw |-> IF r = "A" THEN "None" ELSE r]
        /\ iterator[a] = <<"A", "B", "Stop">>
        /\ Len(out[a]) = 3
        /\ out[a][1].kind = "item" /\ out[a][1].val = "None"
        /\ out[a][3].kind = "stop"

(***************************************************************************)
(* C15.  Idempotence of exhaustion: when the producer answers every pull   *)
(* after its end with another end, every pull that follows the adapter's   *)
(* first end-of-sequence signal signals end-of-sequence too.               *)
(***************************************************************************)
C15_ExhaustionIdempotent ==
    \A a \in Live :
        \A i, j \in 1..Len(out[a]) :
            (/\ i < j
             /\ out[a][i].kind = "stop"
             /\ \A k \in EndIdx(a)[i]..Len(iterator[a]) : iterator[a][k] = "Stop")
            => out[a][j].kind = "stop"

(***************************************************************************)
(* C16.  The adapter is single-pass: __aiter__ returns the adapter itself  *)
(* and resets nothing, so over any number of iterations the producer only  *)
(* moves forward (each raw item is consumed once) and every item returned  *)
(* comes from a raw item consumed by the very pull that returns it.        *)
(***************************************************************************)
IsPrefix(s, t) == Len(s) <= Len(t) /\ SubSeq(t, 1, Len(s)) = s

C16_SinglePass ==
    [][\A a \in Adapters :
        /\ aiter'[a].ret \in {"none", a}
        /\ aiter'[a] # aiter[a] => StateOf(a)' = StateOf(a)
        /\ IsPrefix(iterator[a], iterator'[a])
        /\ IsPrefix(out[a], out'[a])
        /\ (out'[a] # out[a] /\ out'[a][Len(out'[a])].kind = "item") =>
              /\ Len(iterator'[a]) = Len(iterator[a]) + 1
              /\ iterator'[a][Len(iterator'[a])] \in Raw
              /\ out'[a][Len(out'[a])].val =
                    mapper[a][iterator'[a][Len(iterator'[a])]]
      ]_vars

\* a second iteration began after one item and went on with the next ones
C16_Witness ==
    \E a \in Live :
        /\ aiter[a].ret = a /\ aiter[a].at = 1
        /\ mapper[a] = IdentityMapper
        /\ iterator[a] = <<"A", "B", "A">>
        /\ Len(out[a]) = 3
        /\ out[a][2].val = "B" /\ out[a][3].val = "A"

C18_PullTerminates ==
    /\ \A a \in Adapters : (pc[a] \in {"next", "close"}) ~> (pc[a] = "idle")
    /\ [][\A a \in Adapters :
            (iterator'[a] # iterator[a] /\ pc'[a] = "next") =>
                /\ skip_none[a]
                /\ iterator'[a][Len(iterator'[a])] \in Raw
                /\ mapper[a][iterator'[a][Len(iterator'[a])]] = "None"
       ]_vars

\* a pull that suppressed a run of items and then met the producer's end
C18_Witness ==
    \E a \in Live :
        /\ pc[a] = "idle" /\ skip_none[a]
        /\ iterator[a] = <<"A", "A", "A", "Stop">>
        /\ Len(out[a]) = 1

====
